---- MODULE Spec2Model ----
(***************************************************************************)
(* A model of the FreqDemod signal containers.                             *)
(*                                                                         *)
(*   demodulate.Signal : an HDF5 file `f` of named datasets plus a list    *)
(*                       `report`; every stage method reads datasets by    *)
(*                       name and creates new ones.                        *)
(*                       Its method fit reads and writes a dictionary      *)
(*                       attribute `signal` of the object, here            *)
(*                       `self_signal`; no method of the class creates     *)
(*                       that attribute.                                   *)
(*   freqdemod.Signal  : a dictionary `signal` with the entries s and      *)
(*                       s_original.                                       *)
(*   `twin`            : a second demodulate.Signal, its file, report and  *)
(*                       last exception, for the claims that compare two   *)
(*                       containers given the same calls.                  *)
(*                                                                         *)
(* A method that raises leaves behind whatever it had written before the   *)
(* raising line; `err` holds the exception of the last call ("" when it    *)
(* returned) and `call` names the last call and its argument.              *)
(*                                                                         *)
(* Numbers.  Times are integer ticks (dt, tw, td are tick counts), so      *)
(* ceil(tw/dt) is an integer ceiling division.  A frequency is the exact   *)
(* rational <<k, n*dt>> (bin k of an n-point transform).  Window weights   *)
(* are thousandths.  Samples and spectra live in the prime field GF(P),    *)
(* where the n-point discrete Fourier transform exists exactly for every   *)
(* n dividing P-1, so that scaling, shifting and inversion are computed,   *)
(* not assumed.                                                            *)
(***************************************************************************)
EXTENDS Integers, Sequences, FiniteSets, TLC

VARIABLES f, report, call, err, signal, self_signal, twin

vars == <<f, report, call, err, signal, self_signal, twin>>

(***************************************************************************)
(* Bounds of the model.                                                    *)
(***************************************************************************)
MaxLen == 8          \* longest raw signal of the masking specification
MaxN == 4            \* longest raw signal of the other specifications
MaxDt == 2           \* largest time step, in ticks
MaxTw == 2           \* largest window rise/fall time and dead time, in ticks
MaxS == 1            \* largest sample value

(***************************************************************************)
(* Sequences and integer helpers.                                          *)
(***************************************************************************)
\* a[m] for a boolean mask m of the same length (numpy boolean indexing)
RECURSIVE Select(_, _)
Select(a, m) ==
    IF a = <<>> \/ m = <<>> THEN <<>>
    ELSE IF Head(m) THEN <<Head(a)>> \o Select(Tail(a), Tail(m))
         ELSE Select(Tail(a), Tail(m))

\* np.count_nonzero(m)
CountNonzero(m) == Cardinality({i \in DOMAIN m : m[i]})

RECURSIVE Pow(_, _)
Pow(b, e) == IF e = 0 THEN 1 ELSE b * Pow(b, e - 1)

\* int(math.floor(math.log(n, 2))) for n >= 1
RECURSIVE FloorLog2(_)
FloorLog2(n) == IF n < 2 THEN 0 ELSE 1 + FloorLog2(n \div 2)

\* int(math.ceil((1.0*t)/(1.0*dt))) for t >= 0, dt > 0
CeilDiv(t, dt) == (t + dt - 1) \div dt

Abs(x) == IF x < 0 THEN -x ELSE x

(***************************************************************************)
(* The HDF5 file: a function from the names of the datasets that exist to  *)
(* their content.  abscissa = "" and step = 0 stand for an attribute that  *)
(* was never written.  Two more values of f stand for an object without a  *)
(* file and for a file that was closed.                                    *)
(***************************************************************************)
Dataset(data, abscissa, step) ==
    [data |-> data, abscissa |-> abscissa, step |-> step]

Contains(g, name) == name \in DOMAIN g

\* the object has no attribute f (Signal() without a filename): every
\* self.f raises AttributeError
NoFile == [raises |-> "AttributeError"]

\* self.f after self.f.close(): h5py refuses every access to a closed file
ClosedFile == [raises |-> "ValueError"]

\* self.f exists and is open
Usable(g) == "raises" \notin DOMAIN g

create_dataset(g, name, dset) ==
    [k \in DOMAIN g \cup {name} |-> IF k = name THEN dset ELSE g[k]]

\* the outcome of a method: the file and the report it leaves, and the
\* exception it raised ("" if it returned)
Outcome(g, r, e) == [f |-> g, report |-> r, err |-> e]

\* one entry of the report: its text and the numbers formatted into it
Entry(text, args) == [text |-> text, args |-> args]

\* a return that leaves the report as it was
ReturnsUnreported(g, r, text, args) == Outcome(g, r, "")

\* self.report.append(...) as the last statement, then the return
Returns(g, r, text, args) == Outcome(g, Append(r, Entry(text, args)), "")

Raises(g, r, e) == Outcome(g, r, e)

(***************************************************************************)
(* demodulate.Signal.__init__ with a filename, and load_nparray.           *)
(***************************************************************************)
\* the object has no attribute `signal`: __init__ sets f and report only
NoAttribute == [exists |-> FALSE, dict |-> <<>>]

\* no second container has been created
NoTwin == [exists |-> FALSE]

Init ==
    /\ f = <<>>
    /\ report = <<Entry("HDF5 file created in core memory", <<>>)>>
    /\ call = [op |-> "__init__", arg |-> 0]
    /\ err = ""
    /\ signal = [s |-> <<>>, s_original |-> <<>>]
    /\ self_signal = NoAttribute
    /\ twin = NoTwin

\* a load that replaces x and y when they exist
Run_load_nparray_replacing(g, r, s, dt) ==
    Returns(create_dataset(
                create_dataset(g, "x",
                    Dataset([i \in 1..Len(s) |-> dt * (i - 1)], "", dt)),
                "y", Dataset(s, "x", 0)),
            r, "Add a signal", <<Len(s), dt>>)

Run_load_nparray(g, r, s, dt) ==
    IF ~Usable(g) THEN Raises(g, r, g.raises)
    ELSE
    IF Contains(g, "x") THEN Raises(g, r, "ValueError")
    ELSE LET g1 == create_dataset(g, "x",
                       Dataset([i \in 1..Len(s) |-> dt * (i - 1)], "", dt))
         IN  IF Contains(g1, "y") THEN Raises(g1, r, "ValueError")
             ELSE Returns(create_dataset(g1, "y", Dataset(s, "x", 0)),
                          r, "Add a signal", <<Len(s), dt>>)

load_nparray(s, dt) ==
    LET out == Run_load_nparray(f, report, s, dt)
    IN  /\ f' = out.f
        /\ report' = out.report
        /\ err' = out.err
        /\ call' = [op |-> "load_nparray", arg |-> dt]
        /\ UNCHANGED <<signal, self_signal, twin>>

(***************************************************************************)
(* Length normalisation: demodulate.Signal.time_mask_binarate.             *)
(***************************************************************************)
\* the largest power of two strictly below n
NearestPow2Strict(n) ==
    IF n >= 2 /\ Pow(2, FloorLog2(n)) = n THEN n \div 2
    ELSE Pow(2, FloorLog2(n))

\* n2 = int(math.pow(2,int(math.floor(math.log(n, 2)))))
NearestPow2(n) == Pow(2, FloorLog2(n))

\* the start index rounded up
MiddleStartCeil(n, n2) == (n - n2 + 1) \div 2

\* n_start = int(math.floor((n - n2)/2))
MiddleStart(n, n2) == (n - n2) \div 2

Modes == {"start", "middle", "end"}

\* the pair <<n_start, n_stop>> of a known mode
BinarateBounds(n, mode) ==
    LET n2 == NearestPow2(n)
    IN  CASE mode = "middle" -> <<MiddleStart(n, n2), MiddleStart(n, n2) + n2>>
          [] mode = "start" -> <<0, n2>>
          [] mode = "end" -> <<n - n2, n>>

\* mask = (indices >= n_start) & (indices < n_stop)
IndexMask(n, n_start, n_stop) ==
    [i \in 1..n |-> (i - 1 >= n_start) /\ (i - 1 < n_stop)]

\* a mask stage that takes the logarithm of 0 to be 0
Run_time_mask_binarate_empty(g, r, mode) ==
    IF ~Contains(g, "y") \/ mode \notin Modes
           \/ Contains(g, "workup/time/mask/binarate")
    THEN Raises(g, r, "ValueError")
    ELSE LET n == Len(g["y"].data)
             b == BinarateBounds(n, mode)
         IN  Returns(create_dataset(g, "workup/time/mask/binarate",
                                    Dataset(IndexMask(n, b[1], b[2]), "x", 0)),
                     r, "Make an array, workup/time/mask/binarate",
                     <<NearestPow2(n), b[1], b[2]>>)

\* a mask stage that writes its mask again when the mask exists
Run_time_mask_binarate_again(g, r, mode) ==
    IF ~Contains(g, "y") THEN Raises(g, r, "KeyError")
    ELSE LET n == Len(g["y"].data)
         IN  IF n < 1 THEN Raises(g, r, "ValueError")
             ELSE IF mode \notin Modes THEN Raises(g, r, "UnboundLocalError")
             ELSE LET b == BinarateBounds(n, mode)
                      mask == IndexMask(n, b[1], b[2])
                  IN  Returns(create_dataset(g, "workup/time/mask/binarate",
                                             Dataset(mask, "x", 0)),
                              r, "Make an array, workup/time/mask/binarate",
                              <<NearestPow2(n), b[1], b[2]>>)

Run_time_mask_binarate(g, r, mode) ==
    IF ~Usable(g) THEN Raises(g, r, g.raises)
    ELSE
    IF ~Contains(g, "y") THEN Raises(g, r, "KeyError")
    ELSE LET n == Len(g["y"].data)
         IN  IF n < 1 THEN Raises(g, r, "ValueError")
             ELSE IF mode \notin Modes THEN Raises(g, r, "UnboundLocalError")
             ELSE IF Contains(g, "workup/time/mask/binarate")
                  THEN Raises(g, r, "ValueError")
             ELSE LET b == BinarateBounds(n, mode)
                      mask == IndexMask(n, b[1], b[2])
                  IN  Returns(create_dataset(g, "workup/time/mask/binarate",
                                             Dataset(mask, "x", 0)),
                              r, "Make an array, workup/time/mask/binarate",
                              <<NearestPow2(n), b[1], b[2]>>)

time_mask_binarate(mode) ==
    LET out == Run_time_mask_binarate(f, report, mode)
    IN  /\ f' = out.f
        /\ report' = out.report
        /\ err' = out.err
        /\ call' = [op |-> "time_mask_binarate", arg |-> mode]
        /\ UNCHANGED <<signal, self_signal, twin>>

(***************************************************************************)
(* freqdemod.Signal: the constructor and binarate.                         *)
(***************************************************************************)
\* Signal(s, s_name, s_unit, dt): s is kept, s_original starts empty
FD_Signal(s) == [s |-> s, s_original |-> <<>>]

\* list(np.arange(start, stop)), then s[array_indices]
TakeIndices(s, n_start, n_stop) ==
    [i \in 1..(n_stop - n_start) |-> s[n_start + i]]

binarate(mode) ==
    /\ call' = [op |-> "binarate", arg |-> mode]
    /\ UNCHANGED <<f, report, self_signal, twin>>
    /\ LET n == Len(signal.s)
           saved == [signal EXCEPT !.s_original = signal.s]
       IN  IF n < 1 THEN signal' = saved /\ err' = "ValueError"
           ELSE IF mode \notin Modes
                THEN signal' = saved /\ err' = "UnboundLocalError"
           ELSE LET b == BinarateBounds(n, mode)
                IN  /\ signal' = [saved EXCEPT
                                    !.s = TakeIndices(signal.s, b[1], b[2])]
                    /\ err' = ""

(***************************************************************************)
(* The masking specification: signals of up to MaxLen samples, each sample *)
(* carrying its own index so that a selection shows which samples it took. *)
(***************************************************************************)
Tagged(n) == [i \in 1..n |-> i]

AllModes == Modes \cup {"centre"}

InitMask ==
    /\ f = <<>>
    /\ report = <<Entry("HDF5 file created in core memory", <<>>)>>
    /\ call = [op |-> "__init__", arg |-> 0]
    /\ err = ""
    /\ signal \in {FD_Signal(Tagged(n)) : n \in 0..MaxLen}
    /\ self_signal = NoAttribute
    /\ twin = NoTwin

NextMask ==
    \/ \E n \in 0..MaxLen : load_nparray(Tagged(n), 1)
    \/ \E mode \in AllModes : time_mask_binarate(mode)
    \/ \E mode \in AllModes : binarate(mode)

SpecMask == InitMask /\ [][NextMask]_vars

(***************************************************************************)
(* Claims about the length normalisation.                                  *)
(***************************************************************************)
IsPow2(p) == \E k \in 0..(MaxLen + 1) : p = Pow(2, k)

\* the power of two p with p <= n < 2p, found by search
LargestPow2Below(n) == CHOOSE p \in 1..n : IsPow2(p) /\ p <= n /\ n < 2 * p

Contiguous(m) ==
    \A i, j, k \in DOMAIN m : (i < j /\ j < k /\ m[i] /\ m[k]) => m[j]

MaskBinarate == f["workup/time/mask/binarate"].data

\* C1: for every n >= 1 and every mode, time_mask_binarate and
\* freqdemod.Signal.binarate select one contiguous run of exactly
\* 2^floor(log2(n)) of the n samples, and all n samples when n is a power
\* of two.
C1_BinarateSelectsPow2Run ==
    /\ Contains(f, "workup/time/mask/binarate") =>
          LET n == Len(f["y"].data)
              c == CountNonzero(MaskBinarate)
          IN  /\ n >= 1
              /\ Len(MaskBinarate) = n
              /\ c = LargestPow2Below(n)
              /\ Contiguous(MaskBinarate)
              /\ IsPow2(n) => \A i \in 1..n : MaskBinarate[i]
    /\ (call.op = "binarate" /\ err = "") =>
          LET n == Len(signal.s_original)
              c == Len(signal.s)
          IN  /\ n >= 1
              /\ c = LargestPow2Below(n)
              /\ \E o \in 0..(n - c) :
                    signal.s = SubSeq(signal.s_original, o + 1, o + c)
              /\ IsPow2(n) => signal.s = signal.s_original

C1_Witness ==
    /\ Contains(f, "workup/time/mask/binarate")
    /\ Len(f["y"].data) = 6
    /\ CountNonzero(MaskBinarate) = 4
    /\ call.op = "binarate" /\ call.arg = "middle" /\ err = ""
    /\ signal.s_original = Tagged(7)
    /\ signal.s = <<2, 3, 4, 5>>

\* floor(k/2), found by search
HalfFloor(k) == CHOOSE h \in 0..k : 2 * h <= k /\ k < 2 * h + 2

\* C2: the mask of time_mask_binarate has length n and is true exactly on
\* [start, stop): start mode [0, n2), end mode [n - n2, n), middle mode
\* start = floor((n - n2)/2) and stop = start + n2; 0 <= start <= stop <= n.
C2_BinarateMaskBounds ==
    (call.op = "time_mask_binarate" /\ err = "") =>
        LET n == Len(f["y"].data)
            n2 == LargestPow2Below(n)
            start == CASE call.arg = "start" -> 0
                       [] call.arg = "end" -> n - n2
                       [] call.arg = "middle" -> HalfFloor(n - n2)
            stop == start + n2
        IN  /\ Len(MaskBinarate) = n
            /\ 0 <= start /\ start <= stop /\ stop <= n
            /\ \A i \in 1..n :
                  MaskBinarate[i] <=> (start <= i - 1 /\ i - 1 < stop)

C2_Witness ==
    /\ call.op = "time_mask_binarate" /\ call.arg = "middle" /\ err = ""
    /\ Len(f["y"].data) = 7
    /\ MaskBinarate = <<FALSE, TRUE, TRUE, TRUE, TRUE, FALSE, FALSE>>

\* C25: time_mask_binarate on a signal of no samples (n = 0) fails with an
\* error, stores no mask and appends no report entry.
C25_BinarateRejectsEmpty ==
    [][ ( /\ call'.op = "time_mask_binarate"
          /\ Contains(f, "y")
          /\ Len(f["y"].data) = 0 )
        => /\ err' # ""
           /\ ~Contains(f', "workup/time/mask/binarate")
           /\ report' = report
      ]_vars

\* the empty signal is loaded and the mask stage has failed on it
C25_Witness ==
    /\ call.op = "time_mask_binarate"
    /\ call.arg = "start"
    /\ err = "ValueError"
    /\ Contains(f, "y")
    /\ Len(f["y"].data) = 0
    /\ ~Contains(f, "workup/time/mask/binarate")
    /\ Len(report) = 2

\* C18: in freqdemod.Signal, after any sequence of one or more binarate
\* calls, s_original holds the signal as it was passed to the constructor:
\* the first call saves it and no later call changes it.
C18_OriginalKept ==
    [][ call'.op = "binarate" =>
            signal'.s_original = IF signal.s_original = <<>>
                                 THEN signal.s
                                 ELSE signal.s_original ]_vars

(***************************************************************************)
(* Edge window: demodulate.Signal.time_window_cyclicize.                   *)
(***************************************************************************)
\* sp.blackman(M) in thousandths, rounded; empty for M < 1
Blackman(M) ==
    CASE M < 1 -> <<>>
      [] M = 1 -> <<1000>>
      [] M = 2 -> <<0, 0>>
      [] M = 4 -> <<0, 630, 630, 0>>
      [] M = 6 -> <<0, 201, 849, 849, 201, 0>>
      [] M = 8 -> <<0, 90, 459, 920, 920, 459, 90, 0>>
      [] M = 10 -> <<0, 51, 258, 630, 951, 951, 630, 258, 51, 0>>
      [] M = 12 -> <<0, 33, 160, 414, 736, 967, 967, 736, 414, 160, 33, 0>>

\* np.ones(k) in thousandths, for k >= 0
Ones(k) == [i \in 1..k |-> 1000]

\* a[0:k] for 0 <= k
SliceTo(a, k) == SubSeq(a, 1, IF k < Len(a) THEN k ELSE Len(a))

\* a[-k:] for 0 <= k: the whole of a when k = 0, since -0 is 0
SliceLast(a, k) ==
    IF k = 0 \/ k >= Len(a) THEN a ELSE SubSeq(a, Len(a) - k + 1, Len(a))

\* w = np.concatenate([blackman(2*ww)[0:ww], ones(n-2*ww), blackman(2*ww)[-ww:]])
WindowArray(n, ww) ==
    SliceTo(Blackman(2 * ww), ww) \o Ones(n - 2 * ww)
        \o SliceLast(Blackman(2 * ww), ww)

\* lines 401-429: the window itself, once n and the abscissa are known
MakeWindow(g, r, n, abscissa, tw) ==
    LET dt == g["x"].step
        ww == CeilDiv(tw, dt)
    IN  IF n - 2 * ww < 0 THEN Raises(g, r, "ValueError")
        ELSE IF Contains(g, "workup/time/window/cyclicize")
             THEN Raises(g, r, "ValueError")
        ELSE Returns(create_dataset(g, "workup/time/window/cyclicize",
                                    Dataset(WindowArray(n, ww), abscissa, 0)),
                     r, "Create a windowing function", <<ww * dt, ww>>)

Run_time_window_cyclicize(g, r, tw) ==
    IF ~Usable(g) THEN Raises(g, r, g.raises)
    ELSE
    IF Contains(g, "workup/time/mask/binarate")
    THEN LET m == g["workup/time/mask/binarate"].data
             n == CountNonzero(m)
             x_binarated == Select(g["x"].data, m)
         IN  IF Contains(g, "workup/x_binarated")
             THEN Raises(g, r, "ValueError")
             ELSE IF Len(x_binarated) < 2
                  THEN Raises(create_dataset(g, "workup/x_binarated",
                                             Dataset(x_binarated, "", 0)),
                              r, "IndexError")
             ELSE MakeWindow(create_dataset(g, "workup/x_binarated",
                                 Dataset(x_binarated, "",
                                         x_binarated[2] - x_binarated[1])),
                             r, n, "workup/x_binarated", tw)
    ELSE IF ~Contains(g, "y") THEN Raises(g, r, "KeyError")
         ELSE MakeWindow(g, r, Len(g["y"].data), "x", tw)

time_window_cyclicize(tw) ==
    LET out == Run_time_window_cyclicize(f, report, tw)
    IN  /\ f' = out.f
        /\ report' = out.report
        /\ err' = out.err
        /\ call' = [op |-> "time_window_cyclicize", arg |-> tw]
        /\ UNCHANGED <<signal, self_signal, twin>>

(***************************************************************************)
(* Ripple trim: demodulate.Signal.time_mask_rippleless.                    *)
(***************************************************************************)
\* mask = (indices >= ww) & (indices < n - ww)
RippleMask(n, ww) == IndexMask(n, ww, n - ww)

\* lines 684-717, once the time axis x and its name are known
MakeRippleMask(g, r, x, abscissa, ww) ==
    LET n == Len(x)
        mask == RippleMask(n, ww)
        x_rippleless == Select(x, mask)
    IN  IF Contains(g, "workup/time/mask/rippleless")
        THEN Raises(g, r, "ValueError")
        ELSE LET g1 == create_dataset(g, "workup/time/mask/rippleless",
                                      Dataset(mask, abscissa, 0))
             IN  IF Contains(g1, "workup/x_rippleless")
                 THEN Raises(g1, r, "ValueError")
                 ELSE IF Len(x_rippleless) < 2
                      THEN Raises(create_dataset(g1, "workup/x_rippleless",
                                      Dataset(x_rippleless, "", 0)),
                                  r, "IndexError")
                 ELSE Returns(create_dataset(g1, "workup/x_rippleless",
                                  Dataset(x_rippleless, "",
                                          x_rippleless[2] - x_rippleless[1])),
                              r, "Make an array, workup/time/mask/rippleless",
                              <<ww * g["x"].step>>)

Run_time_mask_rippleless(g, r, td) ==
    IF ~Usable(g) THEN Raises(g, r, g.raises)
    ELSE
    IF ~Contains(g, "x") THEN Raises(g, r, "KeyError")
    ELSE LET ww == CeilDiv(td, g["x"].step)
         IN  IF Contains(g, "workup/time/mask/binarate")
             THEN IF ~Contains(g, "workup/x_binarated")
                  THEN Raises(g, r, "KeyError")
                  ELSE MakeRippleMask(g, r, g["workup/x_binarated"].data,
                                      "/workup/x_binarated", ww)
             ELSE MakeRippleMask(g, r, g["x"].data, "x", ww)

time_mask_rippleless(td) ==
    LET out == Run_time_mask_rippleless(f, report, td)
    IN  /\ f' = out.f
        /\ report' = out.report
        /\ err' = out.err
        /\ call' = [op |-> "time_mask_rippleless", arg |-> td]
        /\ UNCHANGED <<signal, self_signal, twin>>

(***************************************************************************)
(* The window specification: load, mask, window and ripple trim in any     *)
(* order, on signals of up to MaxN samples.                                *)
(***************************************************************************)
NextWindow ==
    \/ \E n \in 0..MaxN, dt \in 1..MaxDt : load_nparray(Tagged(n), dt)
    \/ \E mode \in Modes : time_mask_binarate(mode)
    \/ \E tw \in 0..MaxTw : time_window_cyclicize(tw)
    \/ \E td \in 0..MaxTw : time_mask_rippleless(td)

SpecWindow == Init /\ [][NextWindow]_vars

(***************************************************************************)
(* Claims about the edge window and the ripple trim.  Each is a property   *)
(* of one call: the unprimed state is the container before the call, the   *)
(* primed state the container the call leaves.                             *)
(***************************************************************************)
\* the target length: the masked length if the binarate mask exists, else
\* the raw length
TargetLength(g) ==
    IF Contains(g, "workup/time/mask/binarate")
    THEN CountNonzero(g["workup/time/mask/binarate"].data)
    ELSE Len(g["y"].data)

\* w is the rising half of taper B, then ones, then the falling half of B
HasWindowShape(w, n, ww, B) ==
    /\ Len(w) = n
    /\ Len(B) = 2 * ww
    /\ \A i \in 1..ww : w[i] = B[i]
    /\ \A i \in (ww + 1)..(n - ww) : w[i] = 1000
    /\ \A i \in 1..ww : w[n - ww + i] = B[ww + i]

\* C7: for every target length n and every ww = ceil(tw/dt) with 2*ww < n,
\* ww = 0 included, time_window_cyclicize stores a window of length n made
\* of the first ww entries of the 2*ww-point taper, n - 2*ww ones, and the
\* last ww entries of the taper.
C7_CyclicizeStoresWindow ==
    [][ ( /\ call'.op = "time_window_cyclicize"
          /\ Contains(f, "y")
          /\ ~Contains(f, "workup/time/window/cyclicize")
          /\ TargetLength(f) >= 1
          /\ 2 * CeilDiv(call'.arg, f["x"].step) < TargetLength(f) )
        => /\ Contains(f', "workup/time/window/cyclicize")
           /\ HasWindowShape(f'["workup/time/window/cyclicize"].data,
                             TargetLength(f),
                             CeilDiv(call'.arg, f["x"].step),
                             Blackman(2 * CeilDiv(call'.arg, f["x"].step)))
      ]_vars

\* C8: whenever 2*ww >= n, time_window_cyclicize reports an error and stores
\* no window.
C8_CyclicizeRejectsWideWindow ==
    [][ ( /\ call'.op = "time_window_cyclicize"
          /\ Contains(f, "y")
          /\ ~Contains(f, "workup/time/window/cyclicize")
          /\ TargetLength(f) >= 1
          /\ 2 * CeilDiv(call'.arg, f["x"].step) >= TargetLength(f) )
        => /\ err' # ""
           /\ ~Contains(f', "workup/time/window/cyclicize")
      ]_vars

\* the length of the time axis the ripple mask is made for
RippleAxis(g) ==
    IF Contains(g, "workup/time/mask/binarate")
    THEN g["workup/x_binarated"].data
    ELSE g["x"].data

\* the time axis of the ripple mask exists
RippleAxisExists(g) ==
    /\ Contains(g, "x")
    /\ Contains(g, "workup/time/mask/binarate")
          => Contains(g, "workup/x_binarated")

\* C9: for every time-axis length n and every ww = ceil(td/dt) with
\* 2*ww < n, time_mask_rippleless succeeds and stores a mask of length n
\* that is true exactly on [ww, n - ww), and a time axis of n - 2*ww entries.
C9_RipplelessSucceeds ==
    [][ ( /\ call'.op = "time_mask_rippleless"
          /\ RippleAxisExists(f)
          /\ ~Contains(f, "workup/time/mask/rippleless")
          /\ 2 * CeilDiv(call'.arg, f["x"].step) < Len(RippleAxis(f)) )
        => LET n == Len(RippleAxis(f))
               ww == CeilDiv(call'.arg, f["x"].step)
           IN  /\ err' = ""
               /\ Contains(f', "workup/time/mask/rippleless")
               /\ Contains(f', "workup/x_rippleless")
               /\ Len(f'["workup/time/mask/rippleless"].data) = n
               /\ \A i \in 1..n :
                     f'["workup/time/mask/rippleless"].data[i]
                        <=> (ww <= i - 1 /\ i - 1 < n - ww)
               /\ Len(f'["workup/x_rippleless"].data) = n - 2 * ww
      ]_vars

\* C10: whenever 2*ww >= n, time_mask_rippleless raises and stores neither
\* the mask nor the trimmed time axis.
C10_RipplelessFailsFast ==
    [][ ( /\ call'.op = "time_mask_rippleless"
          /\ RippleAxisExists(f)
          /\ ~Contains(f, "workup/time/mask/rippleless")
          /\ Len(RippleAxis(f)) >= 1
          /\ 2 * CeilDiv(call'.arg, f["x"].step) >= Len(RippleAxis(f)) )
        => /\ err' # ""
           /\ ~Contains(f', "workup/time/mask/rippleless")
           /\ ~Contains(f', "workup/x_rippleless")
      ]_vars

(***************************************************************************)
(* Exact arithmetic for the transforms.  P is the least prime such that    *)
(* every transform length up to MaxN divides P - 1; GF(P) then holds a     *)
(* primitive n-th root of unity for each such n.  A rational a/b is        *)
(* carried into GF(P) as a * b^-1.                                         *)
(***************************************************************************)
IsPrime(p) == p > 1 /\ \A d \in 2..(p - 1) : p % d # 0

P == CHOOSE p \in 7..2000 :
        IsPrime(p) /\ \A n \in 1..MaxN : (p - 1) % n = 0

Gf(a) == a % P

RECURSIVE PowMod(_, _)
PowMod(b, e) ==
    IF e = 0 THEN 1
    ELSE IF e % 2 = 0 THEN PowMod((b * b) % P, e \div 2)
         ELSE (b * PowMod((b * b) % P, e \div 2)) % P

\* the inverse of a nonzero element (Fermat)
GfInv(a) == PowMod(a % P, P - 2)

GfDiv(a, b) == (Gf(a) * GfInv(b)) % P

\* a generator of the multiplicative group
Generator ==
    CHOOSE g \in 2..(P - 1) : \A e \in 1..(P - 2) : PowMod(g, e) # 1

\* exp(2 pi i / n)
RootOfUnity(n) == PowMod(Generator, (P - 1) \div n)

RECURSIVE SumSeq(_)
SumSeq(a) == IF a = <<>> THEN 0 ELSE Head(a) + SumSeq(Tail(a))

\* np.fft.fft(s): X[k] = sum_j s[j] exp(-2 pi i j k / n)
Fft(s) ==
    LET n == Len(s)
        w == GfInv(RootOfUnity(n))
        wp == [e \in 0..(n - 1) |-> PowMod(w, e)]
    IN  [k \in 1..n |->
            SumSeq([j \in 1..n |-> s[j] * wp[((j - 1) * (k - 1)) % n]]) % P]

\* np.fft.ifft(X): x[j] = (1/n) sum_k X[k] exp(+2 pi i j k / n)
Ifft(X) ==
    LET n == Len(X)
        w == RootOfUnity(n)
        wp == [e \in 0..(n - 1) |-> PowMod(w, e)]
    IN  [j \in 1..n |->
            GfDiv(SumSeq([k \in 1..n |-> X[k] * wp[((j - 1) * (k - 1)) % n]]),
                  n)]

\* np.fft.fftshift(a) = np.roll(a, n//2)
fftshift(a) ==
    LET n == Len(a)
    IN  [i \in 1..n |-> a[((i - 1 - (n \div 2)) % n) + 1]]

\* np.fft.fftfreq(n, d): the bins 0, 1, ..., (n-1)//2, -(n//2), ..., -1,
\* each over n*d
fftfreq(n, d) ==
    [i \in 1..n |-> <<IF i - 1 <= (n - 1) \div 2 THEN i - 1 ELSE i - 1 - n,
                      n * d>>]

\* the time step in seconds as an element of GF(P): a tick is a millisecond
StepSeconds(dt) == GfDiv(dt, 1000)

\* numpy's elementwise product w*s broadcasts a one-entry operand
Broadcastable(a, b) == Len(a) = Len(b) \/ Len(a) = 1 \/ Len(b) = 1

\* w*s for a window w in thousandths and integer samples s
WindowTimes(w, s) ==
    LET n == IF Len(w) > Len(s) THEN Len(w) ELSE Len(s)
        wi(i) == IF Len(w) = 1 THEN w[1] ELSE w[i]
        si(i) == IF Len(s) = 1 THEN s[1] ELSE s[i]
    IN  [i \in 1..n |-> GfDiv(wi(i) * si(i), 1000)]

(***************************************************************************)
(* Spectral transform: demodulate.Signal.fft.                              *)
(***************************************************************************)
\* sFT = dt * fftshift(fft(s))
ForwardSpectrum(s, dt) ==
    LET X == fftshift(Fft(s))
    IN  [k \in 1..Len(X) |-> (StepSeconds(dt) * X[k]) % P]

\* a transform that keeps the elapsed time with the spectrum
TransformStamped(g, r, s, t_calc) ==
    LET dt == g["x"].step
        n == Len(s)
    IN  IF n < 2 \/ Contains(g, "workup/freq/freq")
        THEN Raises(g, r, "ValueError")
        ELSE LET freq == fftshift(fftfreq(n, dt))
                 g1 == create_dataset(g, "workup/freq/freq",
                           Dataset(freq, "", freq[2][1] - freq[1][1]))
             IN  Returns(create_dataset(g1, "workup/freq/FT",
                             Dataset(ForwardSpectrum(s, dt),
                                     "workup/freq/freq", t_calc)),
                         r, "Fourier transform the windowed signal.",
                         <<t_calc>>)

\* lines 462-509, once the masked and windowed samples s are known; t_calc
\* is the elapsed time stop - start read off the clock
Transform(g, r, s, t_calc) ==
    LET dt == g["x"].step
        n == Len(s)
    IN  IF n = 0 THEN Raises(g, r, "ZeroDivisionError")
        ELSE IF Contains(g, "workup/freq/freq") THEN Raises(g, r, "ValueError")
        ELSE LET freq == fftshift(fftfreq(n, dt))
                 sFT == ForwardSpectrum(s, dt)
             IN  IF n < 2
                 THEN Raises(create_dataset(g, "workup/freq/freq",
                                            Dataset(freq, "", 0)),
                             r, "IndexError")
                 ELSE LET g1 == create_dataset(g, "workup/freq/freq",
                                   Dataset(freq, "", freq[2][1] - freq[1][1]))
                      IN  IF Contains(g1, "workup/freq/FT")
                          THEN Raises(g1, r, "ValueError")
                          ELSE Returns(create_dataset(g1, "workup/freq/FT",
                                           Dataset(sFT, "workup/freq/freq", 0)),
                                       r, "Fourier transform the windowed signal.",
                                       <<t_calc>>)

Run_fft(g, r, t_calc) ==
    IF ~Usable(g) THEN Raises(g, r, g.raises)
    ELSE
    IF ~Contains(g, "y") THEN Raises(g, r, "KeyError")
    ELSE LET y == g["y"].data
             s == IF Contains(g, "workup/time/mask/binarate")
                  THEN Select(y, g["workup/time/mask/binarate"].data)
                  ELSE y
         IN  IF Contains(g, "workup/time/window/cyclicize")
             THEN LET w == g["workup/time/window/cyclicize"].data
                  IN  IF Broadcastable(w, s)
                      THEN Transform(g, r, WindowTimes(w, s), t_calc)
                      ELSE Raises(g, r, "ValueError")
             ELSE Transform(g, r, [i \in 1..Len(s) |-> Gf(s[i])], t_calc)

fft(t_calc) ==
    LET out == Run_fft(f, report, t_calc)
    IN  /\ f' = out.f
        /\ report' = out.report
        /\ err' = out.err
        /\ call' = [op |-> "fft", arg |-> 0]
        /\ UNCHANGED <<signal, self_signal, twin>>

(***************************************************************************)
(* Analytic signal: demodulate.Signal.ifft.  GF(P) carries no order and no *)
(* argument.  The modulus of an element is read off its representative of  *)
(* least magnitude.  Its angle is read off the cycle of the nonzero        *)
(* elements: they are the powers Generator^e, e = 0..P-2, one turn is P-1  *)
(* steps, -1 lies half a turn from 1 and RootOfUnity(n) lies 1/n of a      *)
(* turn from 1, as exp(2 pi i / n) does.  Angles are counted in units of   *)
(* 1/(2*HalfTurn) of a turn.                                               *)
(***************************************************************************)
HalfTurn == (P - 1) \div 2

Centered(v) == IF 2 * v > P THEN v - P ELSE v

\* abs(z)
AbsGf(v) == Abs(Centered(v))

\* the e in 0..P-2 with Generator^e = v, for every nonzero v
DiscreteLog ==
    [v \in 1..(P - 1) |-> CHOOSE e \in 0..(P - 2) : PowMod(Generator, e) = v]

\* np.angle(z), in (-HalfTurn, HalfTurn]; np.angle(0) is 0
AngleGf(v) ==
    IF v = 0 THEN 0
    ELSE IF DiscreteLog[v] > HalfTurn THEN DiscreteLog[v] - 2 * HalfTurn
         ELSE DiscreteLog[v]

\* Python's % for a positive modulus (the result is never negative)
PyMod(a, m) == ((a % m) + m) % m

\* np.unwrap(p): the correction added to p[i], i >= 2, is the running sum of
\* ddmod - dd over the steps dd = p[j] - p[j-1] with |dd| >= pi, where
\* ddmod = mod(dd + pi, 2 pi) - pi and ddmod = pi when that is -pi and dd > 0
PhaseCorrection(dd) ==
    LET m == PyMod(dd + HalfTurn, 2 * HalfTurn) - HalfTurn
        ddmod == IF m = -HalfTurn /\ dd > 0 THEN HalfTurn ELSE m
    IN  IF Abs(dd) < HalfTurn THEN 0 ELSE ddmod - dd

RECURSIVE CumulativeCorrection(_, _)
CumulativeCorrection(p, i) ==
    IF i < 2 THEN 0
    ELSE CumulativeCorrection(p, i - 1) + PhaseCorrection(p[i] - p[i - 1])

\* the angles left as np.angle returns them
UnwrapNothing(p) == p

\* np.unwrap(p)
Unwrap(p) == [i \in 1..Len(p) |-> p[i] + CumulativeCorrection(p, i)]

\* s = FT / step
Unscale(FT, dt) == [k \in 1..Len(FT) |-> GfDiv(FT[k], StepSeconds(dt))]

\* s * filter, for a filter of integers (Hc) or of rationals <<a, b>> (bp)
TimesIntegers(s, h) == [k \in 1..Len(s) |-> (s[k] * Gf(h[k])) % P]

TimesRationals(s, h) ==
    [k \in 1..Len(s) |-> (s[k] * GfDiv(h[k][1], h[k][2])) % P]

\* sIFT = np.fft.ifft(np.fft.fftshift(s))
InverseTransform(s) == Ifft(fftshift(s))

\* lines 770-810: store z, the phase in turns and the amplitude
StoreAnalytic(g, r, sIFT, abscissa) ==
    IF Contains(g, "workup/time/z") THEN Raises(g, r, "ValueError")
    ELSE LET g1 == create_dataset(g, "workup/time/z",
                                  Dataset(sIFT, abscissa, 0))
             angle == [i \in 1..Len(sIFT) |-> AngleGf(sIFT[i])]
             unwrapped == Unwrap(angle)
             p == [i \in 1..Len(sIFT) |-> <<unwrapped[i], 2 * HalfTurn>>]
             a == [i \in 1..Len(sIFT) |-> AbsGf(sIFT[i])]
         IN  IF Contains(g1, "workup/time/p") THEN Raises(g1, r, "ValueError")
             ELSE LET g2 == create_dataset(g1, "workup/time/p",
                                           Dataset(p, abscissa, 0))
                  IN  IF Contains(g2, "workup/time/a")
                      THEN Raises(g2, r, "ValueError")
                      ELSE Returns(create_dataset(g2, "workup/time/a",
                                       Dataset(a, abscissa, 0)),
                                   r, "Apply an inverse Fourier transform.",
                                   <<>>)

Run_ifft(g, r) ==
    IF ~Usable(g) THEN Raises(g, r, g.raises)
    ELSE
    IF ~Contains(g, "workup/freq/FT") THEN Raises(g, r, "KeyError")
    ELSE LET s0 == Unscale(g["workup/freq/FT"].data, g["x"].step)
             s1 == IF Contains(g, "workup/freq/filter/Hc")
                   THEN TimesIntegers(s0, g["workup/freq/filter/Hc"].data)
                   ELSE s0
             s2 == IF Contains(g, "workup/freq/filter/bp")
                   THEN TimesRationals(s1, g["workup/freq/filter/bp"].data)
                   ELSE s1
             sIFT == InverseTransform(s2)
         IN  IF Contains(g, "workup/time/mask/rippleless")
             THEN LET mask == g["workup/time/mask/rippleless"].data
                  IN  IF Len(mask) # Len(sIFT) THEN Raises(g, r, "IndexError")
                      ELSE StoreAnalytic(g, r, Select(sIFT, mask),
                                         "workup/x_rippleless")
             ELSE StoreAnalytic(g, r, sIFT,
                      IF Contains(g, "workup/time/mask/binarate")
                      THEN "/workup/x_binarated" ELSE "x")

ifft ==
    LET out == Run_ifft(f, report)
    IN  /\ f' = out.f
        /\ report' = out.report
        /\ err' = out.err
        /\ call' = [op |-> "ifft", arg |-> 0]
        /\ UNCHANGED <<signal, self_signal, twin>>

(***************************************************************************)
(* The transform specification: load, mask, window, fft and ifft in any    *)
(* order, on signals of up to MaxN samples with values 0..MaxS.            *)
(***************************************************************************)
Signals == UNION {[1..n -> 0..MaxS] : n \in 0..MaxN}

NextFFT ==
    \/ \E s \in Signals, dt \in 1..MaxDt : load_nparray(s, dt)
    \/ \E mode \in Modes : time_mask_binarate(mode)
    \/ \E tw \in 0..MaxTw : time_window_cyclicize(tw)
    \/ fft(0)
    \/ ifft

SpecFFT == Init /\ [][NextFFT]_vars

\* two-level signals: every sample is 0 or MaxS
TwoLevelSignals == UNION {[1..n -> {0, MaxS}] : n \in 0..MaxN}

\* the transforms alone, on two-level signals sampled every millisecond
NextPhase ==
    \/ \E s \in TwoLevelSignals : load_nparray(s, 1)
    \/ \E tw \in 0..MaxTw : time_window_cyclicize(tw)
    \/ fft(0)
    \/ ifft

SpecPhase == Init /\ [][NextPhase]_vars

(***************************************************************************)
(* Claims about the transforms.                                            *)
(***************************************************************************)
\* the samples fft transforms: y, masked if the binarate mask exists and
\* weighted if the window exists
WindowedInput(g) ==
    LET y == g["y"].data
        s == IF Contains(g, "workup/time/mask/binarate")
             THEN Select(y, g["workup/time/mask/binarate"].data)
             ELSE y
    IN  IF Contains(g, "workup/time/window/cyclicize")
        THEN [i \in 1..Len(s) |->
                GfDiv(g["workup/time/window/cyclicize"].data[i] * s[i], 1000)]
        ELSE [i \in 1..Len(s) |-> Gf(s[i])]

\* the last two entries of the report are those of fft and of ifft
FftThenIfft ==
    /\ Len(report) >= 2
    /\ report[Len(report) - 1].text = "Fourier transform the windowed signal."
    /\ report[Len(report)].text = "Apply an inverse Fourier transform."

\* C3: for every transformed length, even or odd, with or without the
\* binarate mask, fft followed by ifft with no filter and no ripple mask
\* yields z equal to the windowed, masked input samples.
C3_RoundTrip ==
    ( /\ FftThenIfft
      /\ ~Contains(f, "workup/freq/filter/Hc")
      /\ ~Contains(f, "workup/freq/filter/bp")
      /\ ~Contains(f, "workup/time/mask/rippleless") )
    => f["workup/time/z"].data = WindowedInput(f)

\* fft finds its inputs: y exists, its outputs do not, and the window, if
\* there is one, has the length of the masked signal
FftCanRun(g) ==
    /\ Contains(g, "y")
    /\ ~Contains(g, "workup/freq/freq")
    /\ ~Contains(g, "workup/freq/FT")
    /\ Contains(g, "workup/time/window/cyclicize")
          => Len(g["workup/time/window/cyclicize"].data) = TargetLength(g)

\* C26: for every transformed length n >= 1 fft succeeds and stores a
\* frequency axis and a spectrum of length n; the axis is strictly
\* increasing and has exactly one zero-frequency entry, at index
\* floor(n/2) counted from 0.
C26_FftStoresAxisAndSpectrum ==
    [][ (call'.op = "fft" /\ FftCanRun(f) /\ TargetLength(f) >= 1)
        => LET n == TargetLength(f)
               axis == f'["workup/freq/freq"].data
           IN  /\ err' = ""
               /\ Contains(f', "workup/freq/freq")
               /\ Contains(f', "workup/freq/FT")
               /\ Len(axis) = n
               /\ Len(f'["workup/freq/FT"].data) = n
               /\ \A i \in 1..(n - 1) :
                     /\ axis[i][2] = axis[i + 1][2]
                     /\ axis[i][2] > 0
                     /\ axis[i][1] < axis[i + 1][1]
               /\ \A i \in 1..n : axis[i][1] = 0 <=> i = (n \div 2) + 1
      ]_vars

PhaseP == f["workup/time/p"].data

\* C11: in the phase workup/time/p stored by ifft, no two consecutive
\* samples differ by more than 0.5 cycles, whatever the complex signal z.
C11_PhaseStepsAtMostHalfCycle ==
    Contains(f, "workup/time/p") =>
        \A i \in 1..(Len(PhaseP) - 1) :
            /\ PhaseP[i][2] = PhaseP[i + 1][2]
            /\ 2 * Abs(PhaseP[i + 1][1] - PhaseP[i][1]) <= PhaseP[i][2]

\* the angle of z jumps by more than half a turn and unwrap has acted
C11_Witness ==
    /\ Contains(f, "workup/time/p")
    /\ \E i \in 1..(Len(PhaseP) - 1) :
          LET z == f["workup/time/z"].data
          IN  /\ Abs(AngleGf(z[i + 1]) - AngleGf(z[i])) > HalfTurn
              /\ PhaseP[i + 1][1] # AngleGf(z[i + 1])

(***************************************************************************)
(* Rational numbers <<a, b>> with b >= 0, in lowest terms.  b = 0 carries  *)
(* the IEEE values numpy produces on a division by zero: <<0, 0>> is nan,  *)
(* <<1, 0>> is inf and <<-1, 0>> is -inf.                                  *)
(***************************************************************************)
RECURSIVE Gcd(_, _)
Gcd(a, b) == IF b = 0 THEN a ELSE Gcd(b, a % b)

Sign(a) == IF a < 0 THEN -1 ELSE IF a = 0 THEN 0 ELSE 1

NaN == <<0, 0>>

\* a/b for integers a, b in lowest terms with a positive denominator
Ratio(a, b) ==
    IF b = 0 THEN <<Sign(a), 0>>
    ELSE LET g == Gcd(Abs(a), Abs(b))
         IN  <<(Sign(b) * a) \div g, Abs(b) \div g>>

RAdd(q, r) ==
    CASE q = NaN \/ r = NaN -> NaN
      [] q[2] = 0 /\ r[2] = 0 -> IF q[1] = r[1] THEN q ELSE NaN
      [] q[2] = 0 -> q
      [] r[2] = 0 -> r
      [] OTHER -> LET g == Gcd(q[2], r[2])
                  IN  Ratio(q[1] * (r[2] \div g) + r[1] * (q[2] \div g),
                            (q[2] \div g) * r[2])

RNeg(q) == <<-q[1], q[2]>>

RSub(q, r) == RAdd(q, RNeg(r))

RMul(q, r) ==
    CASE q = NaN \/ r = NaN -> NaN
      [] q[2] = 0 \/ r[2] = 0 -> <<Sign(q[1]) * Sign(r[1]), 0>>
      [] OTHER -> LET g1 == Gcd(Abs(q[1]), r[2])
                      g2 == Gcd(Abs(r[1]), q[2])
                  IN  Ratio((q[1] \div g1) * (r[1] \div g2),
                            (q[2] \div g2) * (r[2] \div g1))

\* 1/q, with 1/0 = inf
RInv(q) ==
    CASE q = NaN -> NaN
      [] q[2] = 0 -> <<0, 1>>
      [] OTHER -> Ratio(q[2], q[1])

\* q/r, with x/0 = +-inf and 0/0 = nan
RDiv(q, r) ==
    CASE q = NaN \/ r = NaN -> NaN
      [] r[2] # 0 /\ r[1] = 0 -> <<Sign(q[1]), 0>>
      [] OTHER -> RMul(q, RInv(r))

RAbs(q) == <<Abs(q[1]), q[2]>>

\* np.power(q, e) for an integer e >= 1
RECURSIVE RPow(_, _)
RPow(q, e) == IF e = 1 THEN q ELSE RMul(q, RPow(q, e - 1))

RECURSIVE RSum(_)
RSum(a) == IF a = <<>> THEN <<0, 1>> ELSE RAdd(Head(a), RSum(Tail(a)))

(***************************************************************************)
(* Sideband filter: demodulate.Signal.freq_filter_Hilbert_complex.         *)
(***************************************************************************)
Indicator(b) == IF b THEN 1 ELSE 0

\* a filter that also adds 2 at zero frequency
HilbertValueLoose(fq) ==
    0 * Indicator(fq[1] < 0) + 1 * Indicator(fq[1] = 0)
        + 2 * Indicator(fq[1] >= 0)

\* 0.0*(freq < 0) + 1.0*(freq == 0) + 2.0*(freq > 0), for one frequency
HilbertValue(fq) ==
    0 * Indicator(fq[1] < 0) + 1 * Indicator(fq[1] = 0)
        + 2 * Indicator(fq[1] > 0)

\* a filter stage that stores an empty filter when there is no axis
Run_freq_filter_Hilbert_complex_lenient(g, r) ==
    LET freq == IF Contains(g, "workup/freq/freq")
                THEN g["workup/freq/freq"].data ELSE <<>>
        filt == [i \in 1..Len(freq) |-> HilbertValue(freq[i])]
    IN  IF Contains(g, "workup/freq/filter/Hc")
        THEN Raises(g, r, "ValueError")
        ELSE Returns(create_dataset(g, "workup/freq/filter/Hc",
                         Dataset(filt, "workup/freq/freq", 0)),
                     r, "Create the complex Hilbert transform filter.",
                     <<>>)

Run_freq_filter_Hilbert_complex(g, r) ==
    IF ~Usable(g) THEN Raises(g, r, g.raises)
    ELSE
    IF ~Contains(g, "workup/freq/freq") THEN Raises(g, r, "KeyError")
    ELSE LET freq == g["workup/freq/freq"].data
             filt == [i \in 1..Len(freq) |-> HilbertValue(freq[i])]
         IN  IF Contains(g, "workup/freq/filter/Hc")
             THEN Raises(g, r, "ValueError")
             ELSE Returns(create_dataset(g, "workup/freq/filter/Hc",
                              Dataset(filt, "workup/freq/freq", 0)),
                          r, "Create the complex Hilbert transform filter.",
                          <<>>)

freq_filter_Hilbert_complex ==
    LET out == Run_freq_filter_Hilbert_complex(f, report)
    IN  /\ f' = out.f
        /\ report' = out.report
        /\ err' = out.err
        /\ call' = [op |-> "freq_filter_Hilbert_complex", arg |-> 0]
        /\ UNCHANGED <<signal, self_signal, twin>>

(***************************************************************************)
(* Bandpass filter: demodulate.Signal.freq_filter_bp.                      *)
(***************************************************************************)
\* np.argmax(a): the first index of the maximum
ArgMax(a) ==
    CHOOSE i \in 1..Len(a) :
        /\ \A j \in 1..Len(a) : a[j] <= a[i]
        /\ \A j \in 1..(i - 1) : a[j] < a[i]

\* FTrh = Hc*abs(FT)
SidebandMagnitude(Hc, FT) == [i \in 1..Len(FT) |-> Hc[i] * AbsGf(FT[i])]

\* the filter without the absolute value
BandpassValueNoAbs(fq, fc, bw, order) ==
    RInv(RAdd(<<1, 1>>, RPow(RDiv(RSub(fq, fc), bw), order)))

\* bp = 1.0/(1.0+np.power(abs((freq - fc)/bw),order)), for one frequency
BandpassValue(fq, fc, bw, order) ==
    RInv(RAdd(<<1, 1>>, RPow(RAbs(RDiv(RSub(fq, fc), bw)), order)))

Run_freq_filter_bp(g, r, bw, order) ==
    IF ~Usable(g) THEN Raises(g, r, g.raises)
    ELSE
    IF ~Contains(g, "workup/freq/freq") THEN Raises(g, r, "KeyError")
    ELSE IF ~Contains(g, "workup/freq/filter/Hc") THEN Raises(g, r, "KeyError")
    ELSE IF ~Contains(g, "workup/freq/FT") THEN Raises(g, r, "KeyError")
    ELSE LET freq == g["workup/freq/freq"].data
             Hc == g["workup/freq/filter/Hc"].data
             FTrh == SidebandMagnitude(Hc, g["workup/freq/FT"].data)
             fc == freq[ArgMax(FTrh)]
             bp == [i \in 1..Len(freq) |->
                       BandpassValue(freq[i], fc, bw, order)]
             FT_filt == [i \in 1..Len(freq) |-> RMul(<<FTrh[i], 1>>, bp[i])]
             fc_improved ==
                 RDiv(RSum([i \in 1..Len(freq) |-> RMul(freq[i], FT_filt[i])]),
                      RSum(FT_filt))
         IN  IF Contains(g, "workup/freq/filter/bp")
             THEN Raises(g, r, "ValueError")
             ELSE Returns(create_dataset(g, "workup/freq/filter/bp",
                              Dataset(bp, "workup/freq/freq", 0)),
                          r, "Create a bandpass filter",
                          <<fc, bw, order, fc_improved>>)

freq_filter_bp(bw, order) ==
    LET out == Run_freq_filter_bp(f, report, bw, order)
    IN  /\ f' = out.f
        /\ report' = out.report
        /\ err' = out.err
        /\ call' = [op |-> "freq_filter_bp", arg |-> <<bw, order>>]
        /\ UNCHANGED <<signal, self_signal, twin>>

(***************************************************************************)
(* The filter specification: load, fft and the two filters in any order,   *)
(* on two-level signals of up to MaxN samples, one tick apart.  The        *)
(* bandwidth is 0 or 1/b.                                                  *)
(***************************************************************************)
MaxBw == 2           \* largest b of a bandwidth 1/b
MaxOrder == 3        \* largest filter order

\* the bandwidths 0 and 1/b
Bandwidths == {<<0, 1>>} \cup {<<1, b>> : b \in 1..MaxBw}

NextFilter ==
    \/ \E s \in TwoLevelSignals : load_nparray(s, 1)
    \/ fft(0)
    \/ freq_filter_Hilbert_complex
    \/ \E bw \in Bandwidths, order \in 1..MaxOrder : freq_filter_bp(bw, order)

SpecFilter == Init /\ [][NextFilter]_vars

(***************************************************************************)
(* Claims about the filters.                                               *)
(***************************************************************************)
FreqAxis == f["workup/freq/freq"].data

FilterHc == f["workup/freq/filter/Hc"].data

FilterBp == f["workup/freq/filter/bp"].data

\* C4: the filter stored by freq_filter_Hilbert_complex has the length of
\* the frequency axis and is 0 where the frequency is negative, 1 where it
\* is zero and 2 where it is positive.
C4_HilbertFilterValues ==
    Contains(f, "workup/freq/filter/Hc") =>
        /\ Contains(f, "workup/freq/freq")
        /\ Len(FilterHc) = Len(FreqAxis)
        /\ \A i \in 1..Len(FreqAxis) :
              /\ FreqAxis[i][2] > 0
              /\ FreqAxis[i][1] < 0 => FilterHc[i] = 0
              /\ FreqAxis[i][1] = 0 => FilterHc[i] = 1
              /\ FreqAxis[i][1] > 0 => FilterHc[i] = 2

C4_Witness ==
    /\ Contains(f, "workup/freq/filter/Hc")
    /\ FilterHc = <<0, 0, 1, 2>>
    /\ FreqAxis = <<<<-2, 4>>, <<-1, 4>>, <<0, 4>>, <<1, 4>>>>

\* the report entry written by freq_filter_bp: <<fc, bw, order, fc_improved>>
BpEntry ==
    report[CHOOSE i \in 1..Len(report) :
              report[i].text = "Create a bandpass filter"]

\* C5: the center frequency fc picked by freq_filter_bp is the axis
\* frequency at which Hc*|FT| is maximal, and fc is never negative, ties
\* and the all-zero spectrum included.
C5_CenterIsNonNegativePeak ==
    Contains(f, "workup/freq/filter/bp") =>
        LET fc == BpEntry.args[1]
            weighted == [i \in 1..Len(FreqAxis) |->
                            FilterHc[i] * AbsGf(f["workup/freq/FT"].data[i])]
        IN  /\ \E i \in 1..Len(FreqAxis) :
                  /\ FreqAxis[i] = fc
                  /\ \A j \in 1..Len(FreqAxis) : weighted[j] <= weighted[i]
            /\ fc[1] >= 0

\* C6: the bandpass filter is symmetric about fc for even and odd order:
\* two axis frequencies fc + d and fc - d have equal filter values.
C6_BandpassSymmetric ==
    Contains(f, "workup/freq/filter/bp") =>
        LET fc == BpEntry.args[1]
        IN  \A i, j \in 1..Len(FreqAxis) :
               RSub(FreqAxis[i], fc) = RNeg(RSub(FreqAxis[j], fc))
                  => FilterBp[i] = FilterBp[j]

C6_Witness ==
    /\ Contains(f, "workup/freq/filter/bp")
    /\ BpEntry.args[3] = 3
    /\ BpEntry.args[1] = <<0, 4>>
    /\ FilterBp[2] = FilterBp[4]
    /\ FilterBp[2] # <<1, 1>>

\* nan, inf or -inf
Undefined(q) == q[2] = 0

\* FT_filt.sum(), the denominator of fc_improved, for a call with bw and order
FilteredSum(g, bw, order) ==
    LET freq == g["workup/freq/freq"].data
        FTrh == SidebandMagnitude(g["workup/freq/filter/Hc"].data,
                                  g["workup/freq/FT"].data)
        fc == freq[ArgMax(FTrh)]
    IN  RSum([i \in 1..Len(freq) |->
                 RMul(<<FTrh[i], 1>>, BandpassValue(freq[i], fc, bw, order))])

\* C21: freq_filter_bp fails on degenerate input: when the filtered,
\* sideband-weighted spectrum sums to zero or when bw = 0, the call raises,
\* leaves no bandpass filter holding nan or inf, and appends no report
\* entry with an undefined center frequency.
C21_BandpassRejectsDegenerate ==
    [][ ( /\ call'.op = "freq_filter_bp"
          /\ Contains(f, "workup/freq/freq")
          /\ Contains(f, "workup/freq/filter/Hc")
          /\ Contains(f, "workup/freq/FT")
          /\ ~Contains(f, "workup/freq/filter/bp")
          /\ \/ call'.arg[1] = <<0, 1>>
             \/ FilteredSum(f, call'.arg[1], call'.arg[2]) = <<0, 1>> )
        => /\ err' # ""
           /\ Contains(f', "workup/freq/filter/bp") =>
                 \A i \in 1..Len(f'["workup/freq/filter/bp"].data) :
                     ~Undefined(f'["workup/freq/filter/bp"].data[i])
           /\ \A i \in (Len(report) + 1)..Len(report') :
                 /\ ~Undefined(report'[i].args[1])
                 /\ ~Undefined(report'[i].args[4])
      ]_vars

(***************************************************************************)
(* Frequency estimate: demodulate.Signal.fit.  The method reads the        *)
(* entries dt, theta and t of the attribute `signal` and writes fit_freq   *)
(* and fit_time into it.  The module is Python 2 (print statements at      *)
(* lines 1038 and 1540): round() rounds a half away from zero and / on two *)
(* ints is the floor division.  Times are ticks, phases are integers and   *)
(* slopes are exact rationals.                                             *)
(***************************************************************************)
\* int(round(a/b)) for floats a >= 0 and b > 0
RoundDiv(a, b) == (2 * a + b) \div (2 * b)

\* theta.size/n_per_chunk rounded to the nearest integer (a true division)
ChunkCountNearest(size, n_per_chunk) == RoundDiv(size, n_per_chunk)

\* int(round(theta.size/n_per_chunk)): both operands are ints, so / floors
\* and round() finds an integer
ChunkCount(size, n_per_chunk) == RoundDiv(size \div n_per_chunk, 1)

\* chunks that start one sample late
ReshapeLate(a, n_tot_chunk, n_per_chunk) ==
    [c \in 1..n_tot_chunk |->
        [k \in 1..n_per_chunk |->
            a[IF (c - 1) * n_per_chunk + k < Len(a)
              THEN (c - 1) * n_per_chunk + k + 1
              ELSE Len(a)]]]

\* a[0:n_total].reshape((n_tot_chunk, n_per_chunk)): the chunks, in order
Reshape(a, n_tot_chunk, n_per_chunk) ==
    [c \in 1..n_tot_chunk |->
        [k \in 1..n_per_chunk |-> a[(c - 1) * n_per_chunk + k]]]

\* a_sub - a_sub[:,:,np.newaxis][:,0,:]*np.ones(n_per_chunk), for one chunk
ResetChunk(row) == [k \in 1..Len(row) |-> row[k] - row[1]]

\* SX = dt*0.50*(n_per_chunk-1)*(n_per_chunk)
AnalyticSX(dt, n) == Ratio(dt * (n - 1) * n, 2)

\* the sum of squares with 2n+1 in place of 2n-1
AnalyticSXXPlus(dt, n) == Ratio(dt * dt * n * (n - 1) * (2 * n + 1), 6)

\* SXX = dt**2*(1/6.0)*(n_per_chunk)*(n_per_chunk-1)*(2*n_per_chunk-1)
AnalyticSXX(dt, n) == Ratio(dt * dt * n * (n - 1) * (2 * n - 1), 6)

\* np.sum over one chunk
ChunkSum(row) == SumSeq(row)

\* slope = (n_per_chunk*SXY-SX*SY)/(n_per_chunk*SXX-SX*SX), for one chunk
\* with times t_row and phases s_row; a zero denominator gives nan or inf
ChunkSlope(dt, n, t_row, s_row) ==
    LET t_reset == ResetChunk(t_row)
        s_reset == ResetChunk(s_row)
        SX == AnalyticSX(dt, n)
        SXX == AnalyticSXX(dt, n)
        SY == <<ChunkSum(s_reset), 1>>
        SXY == <<ChunkSum([k \in 1..n |-> t_reset[k] * s_reset[k]]), 1>>
    IN  RDiv(RSub(RMul(<<n, 1>>, SXY), RMul(SX, SY)),
             RSub(RMul(<<n, 1>>, SXX), RMul(SX, SX)))

\* self.signal[key] = value
SetItem(d, key, value) ==
    [k \in DOMAIN d \cup {key} |-> IF k = key THEN value ELSE d[k]]

\* the outcome of fit: the attribute and the report it leaves, and the
\* exception it raised ("" if it returned)
FitOutcome(sig, r, e) == [signal |-> sig, report |-> r, err |-> e]

Run_fit(sig, r, dt_chunk_target) ==
    IF ~sig.exists THEN FitOutcome(sig, r, "AttributeError")
    ELSE IF ~Contains(sig.dict, "dt") THEN FitOutcome(sig, r, "KeyError")
    ELSE IF sig.dict["dt"] = 0 THEN FitOutcome(sig, r, "ZeroDivisionError")
    ELSE IF ~Contains(sig.dict, "theta") THEN FitOutcome(sig, r, "KeyError")
    ELSE
    LET dt == sig.dict["dt"]
        theta == sig.dict["theta"]
        n_per_chunk == RoundDiv(dt_chunk_target, dt)
    IN  IF n_per_chunk = 0 THEN FitOutcome(sig, r, "ZeroDivisionError")
        ELSE
        LET n_tot_chunk == ChunkCount(Len(theta), n_per_chunk)
            n_total == n_per_chunk * n_tot_chunk
        IN  IF n_total > Len(theta) THEN FitOutcome(sig, r, "ValueError")
            ELSE IF ~Contains(sig.dict, "t")
                 THEN FitOutcome(sig, r, "KeyError")
            ELSE IF n_total > Len(sig.dict["t"])
                 THEN FitOutcome(sig, r, "ValueError")
            ELSE
            LET s_sub == Reshape(theta, n_tot_chunk, n_per_chunk)
                t_sub == Reshape(sig.dict["t"], n_tot_chunk, n_per_chunk)
                slope == [c \in 1..n_tot_chunk |->
                             ChunkSlope(dt, n_per_chunk, t_sub[c], s_sub[c])]
                fit_time == [c \in 1..n_tot_chunk |-> t_sub[c][1]]
                d1 == SetItem(sig.dict, "fit_freq", slope)
                d2 == SetItem(d1, "fit_time", fit_time)
            IN  FitOutcome([sig EXCEPT !.dict = d2],
                           Append(r, Entry("Curve fit the phase data.",
                                           <<dt_chunk_target, dt * n_per_chunk,
                                             n_per_chunk, n_tot_chunk,
                                             n_total>>)),
                           "")

fit(dt_chunk_target) ==
    LET out == Run_fit(self_signal, report, dt_chunk_target)
    IN  /\ self_signal' = out.signal
        /\ report' = out.report
        /\ err' = out.err
        /\ call' = [op |-> "fit", arg |-> dt_chunk_target]
        /\ UNCHANGED <<f, signal, twin>>

(***************************************************************************)
(* The fit specification: fit on an object whose attribute `signal` was    *)
(* filled in by the caller with a time step, a phase and the equally       *)
(* spaced times of its samples.  The phase is a linear ramp of up to       *)
(* MaxTheta samples, as it is or with one sample displaced by one.  Every  *)
(* successful fit lengthens the report, so at most MaxFits of them are     *)
(* followed.                                                               *)
(***************************************************************************)
MaxTheta == 4        \* longest phase
MaxSlope == 2        \* largest phase step per sample of a ramp
MaxTarget == 5       \* largest target chunk duration, in ticks
MaxFits == 1         \* most successful fits on one object

\* the phase b, b + a, b + 2a, ...
Ramp(n, a, b) == [i \in 1..n |-> b + a * (i - 1)]

\* theta with sample j raised by one; j = 0 leaves theta as it is
Displaced(theta, j) ==
    [i \in 1..Len(theta) |-> IF i = j THEN theta[i] + 1 ELSE theta[i]]

Phases ==
    {Displaced(Ramp(n, a, b), j) :
        n \in 0..MaxTheta, a \in 0..MaxSlope, b \in 0..1, j \in 0..MaxTheta}

\* the attribute `signal` with dt, theta and the times t0, t0 + dt, ...
FitInput(dt, t0, theta) ==
    [exists |-> TRUE,
     dict |-> SetItem(SetItem(SetItem(<<>>, "dt", dt), "theta", theta),
                      "t", [i \in 1..Len(theta) |-> t0 + dt * (i - 1)])]

InitFit ==
    /\ f = <<>>
    /\ report = <<Entry("HDF5 file created in core memory", <<>>)>>
    /\ call = [op |-> "__init__", arg |-> 0]
    /\ err = ""
    /\ signal = [s |-> <<>>, s_original |-> <<>>]
    /\ self_signal \in {FitInput(dt, t0, theta) :
                           dt \in 1..MaxDt, t0 \in 0..1, theta \in Phases}
    /\ twin = NoTwin

NextFit ==
    /\ Len(report) <= MaxFits
    /\ \E dt_chunk_target \in 0..MaxTarget : fit(dt_chunk_target)

SpecFit == InitFit /\ [][NextFit]_vars

(***************************************************************************)
(* Claims about the frequency estimate.                                    *)
(***************************************************************************)
FitTheta == self_signal.dict["theta"]

FitDt == self_signal.dict["dt"]

\* the report entry of the fit that has just returned:
\* <<dt_chunk_target, dt_chunk, n_per_chunk, n_tot_chunk, n_total>>
FitEntry == report[Len(report)]

FitReturned == call.op = "fit" /\ err = ""

\* consecutive phases differ by a
IsRamp(theta, a) == \A i \in 1..(Len(theta) - 1) : theta[i + 1] - theta[i] = a

\* C12: for a noise-free linear phase ramp sampled every dt, fit returns
\* in every chunk the slope of the ramp, for every n_per_chunk >= 2 and
\* every chunk; the analytic sums Sx and Sxx equal the sums over the
\* chunk's times once its first time is subtracted.
C12_RampSlopeRecovered ==
    (FitReturned /\ FitEntry.args[3] >= 2) =>
        LET n == FitEntry.args[3]
            chunks == FitEntry.args[4]
            t_sub == Reshape(self_signal.dict["t"], chunks, n)
            fit_freq == self_signal.dict["fit_freq"]
        IN  /\ Len(fit_freq) = chunks
            /\ \A c \in 1..chunks :
                  LET x == ResetChunk(t_sub[c])
                  IN  /\ AnalyticSX(FitDt, n) = <<ChunkSum(x), 1>>
                      /\ AnalyticSXX(FitDt, n)
                            = <<ChunkSum([k \in 1..n |-> x[k] * x[k]]), 1>>
            /\ (chunks >= 1 /\ IsRamp(FitTheta, FitTheta[2] - FitTheta[1])) =>
                  \A c \in 1..chunks :
                      fit_freq[c] = Ratio(FitTheta[2] - FitTheta[1], FitDt)

\* a ramp of slope 2 per sample fitted in two chunks of two samples
C12_Witness ==
    /\ FitReturned
    /\ FitEntry.args[3] = 2
    /\ FitEntry.args[4] = 2
    /\ FitTheta = <<1, 3, 5, 7>>
    /\ FitDt = 2
    /\ self_signal.dict["fit_freq"] = <<<<1, 1>>, <<1, 1>>>>
    /\ self_signal.dict["fit_time"] = <<1, 5>>

\* C13: for every phase length L >= 1 and every n_per_chunk >= 2 the
\* number of samples used, n_total = n_per_chunk * n_chunks, satisfies
\* n_total <= L and L - n_total < n_per_chunk, and the fit does not fail
\* for want of samples.
C13_ChunkingDiscardsOnlyRemainder ==
    ( /\ call.op = "fit"
      /\ self_signal.exists
      /\ Len(FitTheta) >= 1
      /\ RoundDiv(call.arg, FitDt) >= 2 ) =>
        /\ err = ""
        /\ FitEntry.args[3] = RoundDiv(call.arg, FitDt)
        /\ FitEntry.args[5] = FitEntry.args[3] * FitEntry.args[4]
        /\ FitEntry.args[5] <= Len(FitTheta)
        /\ Len(FitTheta) - FitEntry.args[5] < FitEntry.args[3]

\* three samples in chunks of two: one chunk, the last sample discarded
C13_Witness ==
    /\ FitReturned
    /\ Len(FitTheta) = 3
    /\ FitEntry.args[3] = 2
    /\ FitEntry.args[4] = 1
    /\ FitEntry.args[5] = 2
    /\ Len(self_signal.dict["fit_freq"]) = 1

\* n_per_chunk is 0 or 1, or n_per_chunk * n_chunks is 0 or 1
DegenerateChunking(sig, dt_chunk_target) ==
    LET n == RoundDiv(dt_chunk_target, sig.dict["dt"])
    IN  n <= 1 \/ n * ChunkCount(Len(sig.dict["theta"]), n) <= 1

\* C14: fit rejects every degenerate chunking: when n_per_chunk is 0 or 1,
\* or n_per_chunk * n_chunks is 0 or 1, the call fails with an error and
\* stores no fit_freq and no fit_time.  Stated for a phase of two samples
\* or more.
C14_FitRejectsDegenerateChunking ==
    [][ ( /\ call'.op = "fit"
          /\ self_signal.exists
          /\ Len(FitTheta) >= 2
          /\ DegenerateChunking(self_signal, call'.arg) )
        => (err' # "" /\ self_signal' = self_signal) ]_vars

\* theta with c added to every sample of chunk k of n samples
ShiftChunk(theta, k, n, c) ==
    [i \in 1..Len(theta) |->
        IF (k - 1) * n < i /\ i <= k * n THEN theta[i] + c ELSE theta[i]]

\* the phases that agree with theta on chunk k up to a constant: chunk k
\* raised by one, or one sample outside chunk k raised by one
SameChunk(theta, k, n) ==
    {ShiftChunk(theta, k, n, 1)}
        \cup {Displaced(theta, j) :
                 j \in {i \in 1..Len(theta) : i <= (k - 1) * n \/ i > k * n}}

\* the slopes fit stores when the phase is theta2 and all else is the same
RefitSlopes(theta2) ==
    Run_fit([self_signal EXCEPT !.dict = SetItem(self_signal.dict,
                                                 "theta", theta2)],
            report, call.arg).signal.dict["fit_freq"]

\* C30: fit stores exactly n_chunks slopes and n_chunks start times in
\* chunk order, the start time of chunk k (from 0) being the time sample at
\* index k*n_per_chunk, and the slope of chunk k depends on the phase
\* samples of chunk k only: another phase that differs outside chunk k, or
\* by a constant on chunk k, gives the same slope for chunk k.
C30_ChunksIndependent ==
    FitReturned =>
        LET n == FitEntry.args[3]
            chunks == FitEntry.args[4]
            fit_freq == self_signal.dict["fit_freq"]
            fit_time == self_signal.dict["fit_time"]
        IN  /\ Len(fit_freq) = chunks
            /\ Len(fit_time) = chunks
            /\ \A k \in 1..chunks :
                  /\ fit_time[k] = self_signal.dict["t"][(k - 1) * n + 1]
                  /\ \A theta2 \in SameChunk(FitTheta, k, n) :
                        RefitSlopes(theta2)[k] = fit_freq[k]

\* two chunks of two samples with different slopes, in chunk order
C30_Witness ==
    /\ FitReturned
    /\ FitTheta = <<0, 1, 2, 4>>
    /\ FitDt = 1
    /\ FitEntry.args[3] = 2
    /\ self_signal.dict["fit_freq"] = <<<<1, 1>>, <<2, 1>>>>
    /\ self_signal.dict["fit_time"] = <<0, 2>>

(***************************************************************************)
(* The pipeline specification: every stage of demodulate.Signal, in any    *)
(* order and any number of times, on one container.  The raw signal is a   *)
(* constant of MaxN - 1 or MaxN samples one tick apart; the edge window    *)
(* and the dead time are one tick, the bandpass filter has the narrowest   *)
(* band and the highest order, the chunks are one tick.                    *)
(***************************************************************************)
Flat(n) == [i \in 1..n |-> MaxS]

NextPipeline ==
    \/ \E n \in (MaxN - 1)..MaxN : load_nparray(Flat(n), 1)
    \/ time_mask_binarate("middle")
    \/ time_window_cyclicize(1)
    \/ fft(0)
    \/ freq_filter_Hilbert_complex
    \/ freq_filter_bp(<<1, MaxBw>>, MaxOrder)
    \/ time_mask_rippleless(1)
    \/ ifft
    \/ fit(1)

SpecPipeline == Init /\ [][NextPipeline]_vars

(***************************************************************************)
(* Claims about the pipeline.                                              *)
(***************************************************************************)
\* the report after the eight stages have succeeded in pipeline order
PipelineTexts ==
    << "HDF5 file created in core memory",
       "Add a signal",
       "Make an array, workup/time/mask/binarate",
       "Create a windowing function",
       "Fourier transform the windowed signal.",
       "Create the complex Hilbert transform filter.",
       "Create a bandpass filter",
       "Make an array, workup/time/mask/rippleless",
       "Apply an inverse Fourier transform." >>

StagesSucceededInOrder ==
    /\ Len(report) >= Len(PipelineTexts)
    /\ \A i \in 1..Len(PipelineTexts) : report[i].text = PipelineTexts[i]

\* C15: after load_nparray, time_mask_binarate, time_window_cyclicize,
\* fft, freq_filter_Hilbert_complex, freq_filter_bp, time_mask_rippleless
\* and ifft have succeeded in that order on one container, a call of fit
\* with a valid chunk duration succeeds, reads the phase written by ifft
\* and produces the frequency estimate.
C15_FitConsumesPhase ==
    (call.op = "fit" /\ StagesSucceededInOrder) =>
        /\ err = ""
        /\ self_signal.exists
        /\ Contains(self_signal.dict, "fit_freq")
        /\ Contains(self_signal.dict, "fit_time")
        /\ self_signal.dict["theta"] = PhaseP

\* the datasets a stage creates
Outputs(op) ==
    CASE op = "load_nparray" -> {"x", "y"}
      [] op = "time_mask_binarate" -> {"workup/time/mask/binarate"}
      [] op = "time_window_cyclicize" ->
            {"workup/x_binarated", "workup/time/window/cyclicize"}
      [] op = "fft" -> {"workup/freq/freq", "workup/freq/FT"}
      [] op = "freq_filter_Hilbert_complex" -> {"workup/freq/filter/Hc"}
      [] op = "freq_filter_bp" -> {"workup/freq/filter/bp"}
      [] op = "time_mask_rippleless" ->
            {"workup/time/mask/rippleless", "workup/x_rippleless"}
      [] op = "ifft" -> {"workup/time/z", "workup/time/p", "workup/time/a"}
      [] OTHER -> {}

\* C16: the artifact table is append-only: no call changes or removes a
\* dataset that exists, and a stage called when one of its output keys
\* exists fails and overwrites nothing.
C16_ArtifactsAppendOnly ==
    [][ /\ \A k \in DOMAIN f : k \in DOMAIN f' /\ f'[k] = f[k]
        /\ (\E k \in Outputs(call'.op) : k \in DOMAIN f) => err' # "" ]_vars

\* fft called a second time has failed and the spectrum is still there
C16_Witness ==
    /\ call.op = "fft"
    /\ err = "ValueError"
    /\ Contains(f, "workup/freq/FT")
    /\ Contains(f, "workup/time/z")

\* C17: after load_nparray no sequence of stage calls changes the datasets
\* x and y; masks and windows are applied to copies.
C17_RawSignalImmutable ==
    [][ \A k \in {"x", "y"} :
            k \in DOMAIN f => (k \in DOMAIN f' /\ f'[k] = f[k]) ]_vars

\* the whole pipeline has run on a masked, windowed signal and y is the
\* signal that was loaded
C17_Witness ==
    /\ StagesSucceededInOrder
    /\ f["y"].data = Flat(MaxN)
    /\ Len(f["workup/time/z"].data) < MaxN

\* C19: the report is an ordered append-only log: every stage call that
\* succeeds appends exactly one entry at the end and changes no earlier
\* entry; a call that fails leaves the report as it was.
C19_ReportAppendOnly ==
    [][ /\ err' = "" => /\ Len(report') = Len(report) + 1
                        /\ SubSeq(report', 1, Len(report)) = report
        /\ err' # "" => report' = report ]_vars

\* the eight stages have succeeded: nine entries in the order of the calls
C19_Witness ==
    /\ StagesSucceededInOrder
    /\ Len(report) = Len(PipelineTexts)
    /\ call.op = "ifft"
    /\ err = ""

\* the stage reads a dataset that does not exist
MissingInput(op, g) ==
    CASE op = "freq_filter_Hilbert_complex" -> ~Contains(g, "workup/freq/freq")
      [] op = "freq_filter_bp" ->
            \/ ~Contains(g, "workup/freq/freq")
            \/ ~Contains(g, "workup/freq/FT")
            \/ ~Contains(g, "workup/freq/filter/Hc")
      [] op = "ifft" -> ~Contains(g, "workup/freq/FT")
      [] OTHER -> FALSE

\* C20: freq_filter_Hilbert_complex before fft, freq_filter_bp before fft
\* or before freq_filter_Hilbert_complex, and ifft before fft each fail
\* with the error of the missing dataset, create nothing and leave the
\* report unchanged.
C20_MissingInputFailsClean ==
    [][ MissingInput(call'.op, f) =>
            (err' = "KeyError" /\ f' = f /\ report' = report) ]_vars

\* freq_filter_bp called after fft and before freq_filter_Hilbert_complex
C20_Witness ==
    /\ call.op = "freq_filter_bp"
    /\ err = "KeyError"
    /\ Contains(f, "workup/freq/FT")
    /\ ~Contains(f, "workup/freq/filter/Hc")
    /\ ~Contains(f, "workup/freq/filter/bp")

\* C22: lengths are consistent for every order of stage calls: whenever the
\* binarate mask and the cyclicize window both exist, the window has as
\* many entries as the mask has true entries, and whenever the ripple mask
\* and the spectrum both exist, the ripple mask has the length of the
\* spectrum that ifft inverse-transforms.
C22_LengthsConsistent ==
    /\ ( /\ Contains(f, "workup/time/mask/binarate")
         /\ Contains(f, "workup/time/window/cyclicize") )
       => Len(f["workup/time/window/cyclicize"].data)
             = CountNonzero(f["workup/time/mask/binarate"].data)
    /\ ( /\ Contains(f, "workup/time/mask/rippleless")
         /\ Contains(f, "workup/freq/FT") )
       => Len(f["workup/time/mask/rippleless"].data)
             = Len(f["workup/freq/FT"].data)

(***************************************************************************)
(* The twin specification: two containers created alike are given the same *)
(* calls with the same arguments, one call at a time.  What the two calls  *)
(* do not share is the clock: fft measures its own elapsed time in each    *)
(* container.  The raw signal is an impulse of MaxN samples one tick       *)
(* apart; the stage parameters are those of the pipeline specification.    *)
(***************************************************************************)
MaxElapsed == 1      \* largest elapsed time of fft in the second container

\* one sample of MaxS, the second, in a signal of zeros
Impulse(n) == [i \in 1..n |-> IF i = 2 THEN MaxS ELSE 0]

\* the second container as a call leaves it
TwinAfter(out) ==
    [exists |-> TRUE, f |-> out.f, report |-> out.report, err |-> out.err]

InitTwin ==
    /\ f = <<>>
    /\ report = <<Entry("HDF5 file created in core memory", <<>>)>>
    /\ call = [op |-> "__init__", arg |-> 0]
    /\ err = ""
    /\ signal = [s |-> <<>>, s_original |-> <<>>]
    /\ self_signal = NoAttribute
    /\ twin = TwinAfter(Outcome(<<>>,
                 <<Entry("HDF5 file created in core memory", <<>>)>>, ""))

twin_load_nparray(s, dt) ==
    LET out == Run_load_nparray(f, report, s, dt)
    IN  /\ f' = out.f
        /\ report' = out.report
        /\ err' = out.err
        /\ call' = [op |-> "load_nparray", arg |-> dt]
        /\ twin' = TwinAfter(Run_load_nparray(twin.f, twin.report, s, dt))
        /\ UNCHANGED <<signal, self_signal>>

twin_time_mask_binarate(mode) ==
    LET out == Run_time_mask_binarate(f, report, mode)
    IN  /\ f' = out.f
        /\ report' = out.report
        /\ err' = out.err
        /\ call' = [op |-> "time_mask_binarate", arg |-> mode]
        /\ twin' = TwinAfter(Run_time_mask_binarate(twin.f, twin.report, mode))
        /\ UNCHANGED <<signal, self_signal>>

twin_time_window_cyclicize(tw) ==
    LET out == Run_time_window_cyclicize(f, report, tw)
    IN  /\ f' = out.f
        /\ report' = out.report
        /\ err' = out.err
        /\ call' = [op |-> "time_window_cyclicize", arg |-> tw]
        /\ twin' = TwinAfter(Run_time_window_cyclicize(twin.f, twin.report, tw))
        /\ UNCHANGED <<signal, self_signal>>

twin_fft(t_calc, t_calc_twin) ==
    LET out == Run_fft(f, report, t_calc)
    IN  /\ f' = out.f
        /\ report' = out.report
        /\ err' = out.err
        /\ call' = [op |-> "fft", arg |-> 0]
        /\ twin' = TwinAfter(Run_fft(twin.f, twin.report, t_calc_twin))
        /\ UNCHANGED <<signal, self_signal>>

twin_freq_filter_Hilbert_complex ==
    LET out == Run_freq_filter_Hilbert_complex(f, report)
    IN  /\ f' = out.f
        /\ report' = out.report
        /\ err' = out.err
        /\ call' = [op |-> "freq_filter_Hilbert_complex", arg |-> 0]
        /\ twin' = TwinAfter(Run_freq_filter_Hilbert_complex(twin.f,
                                                             twin.report))
        /\ UNCHANGED <<signal, self_signal>>

twin_freq_filter_bp(bw, order) ==
    LET out == Run_freq_filter_bp(f, report, bw, order)
    IN  /\ f' = out.f
        /\ report' = out.report
        /\ err' = out.err
        /\ call' = [op |-> "freq_filter_bp", arg |-> <<bw, order>>]
        /\ twin' = TwinAfter(Run_freq_filter_bp(twin.f, twin.report, bw, order))
        /\ UNCHANGED <<signal, self_signal>>

twin_time_mask_rippleless(td) ==
    LET out == Run_time_mask_rippleless(f, report, td)
    IN  /\ f' = out.f
        /\ report' = out.report
        /\ err' = out.err
        /\ call' = [op |-> "time_mask_rippleless", arg |-> td]
        /\ twin' = TwinAfter(Run_time_mask_rippleless(twin.f, twin.report, td))
        /\ UNCHANGED <<signal, self_signal>>

twin_ifft ==
    LET out == Run_ifft(f, report)
    IN  /\ f' = out.f
        /\ report' = out.report
        /\ err' = out.err
        /\ call' = [op |-> "ifft", arg |-> 0]
        /\ twin' = TwinAfter(Run_ifft(twin.f, twin.report))
        /\ UNCHANGED <<signal, self_signal>>

NextTwin ==
    \/ twin_load_nparray(Impulse(MaxN), 1)
    \/ twin_time_mask_binarate("middle")
    \/ twin_time_window_cyclicize(1)
    \/ \E t_calc_twin \in 0..MaxElapsed : twin_fft(0, t_calc_twin)
    \/ twin_freq_filter_Hilbert_complex
    \/ twin_freq_filter_bp(<<1, MaxBw>>, MaxOrder)
    \/ twin_time_mask_rippleless(1)
    \/ twin_ifft

SpecTwin == InitTwin /\ [][NextTwin]_vars

\* the elapsed time is the one thing in which two report entries may differ
SameButElapsed(e1, e2) ==
    /\ e1.text = e2.text
    /\ e1.text # "Fourier transform the windowed signal." => e1.args = e2.args

\* C23: two containers loaded with the same samples and dt and given the
\* same sequence of stage calls with the same parameters hold the same
\* datasets after every step, and the same report but for the elapsed time
\* in the entry of fft.
C23_Deterministic ==
    twin.exists =>
        /\ f = twin.f
        /\ err = twin.err
        /\ Len(report) = Len(twin.report)
        /\ \A i \in 1..Len(report) : SameButElapsed(report[i], twin.report[i])

\* both containers went through the whole pipeline, their clocks differed
C23_Witness ==
    /\ twin.exists
    /\ StagesSucceededInOrder
    /\ Contains(f, "workup/time/p")
    /\ f["y"].data = Impulse(MaxN)
    /\ report # twin.report

(***************************************************************************)
(* The container without a file: demodulate.Signal() with no filename,     *)
(* open, close and plot.  A file on disk is what close wrote: the datasets *)
(* and the report kept in the attribute `report` of the file.              *)
(***************************************************************************)
\* Signal(): new_report holds "Container Signal object created", no self.f
InitContainer ==
    /\ f = NoFile
    /\ report = <<Entry("Container Signal object created", <<>>)>>
    /\ call = [op |-> "__init__", arg |-> 0]
    /\ err = ""
    /\ signal = [s |-> <<>>, s_original |-> <<>>]
    /\ self_signal = NoAttribute
    /\ twin = NoTwin

\* no file of that name
Missing == [exists |-> FALSE]

\* the file left by Signal(filename), load_nparray(s, ..., dt) and close()
SavedFile(g, r) == [exists |-> TRUE, f |-> g, report |-> r]

DiskFiles ==
    LET created == Outcome(<<>>,
                       <<Entry("HDF5 file created in core memory", <<>>)>>, "")
        loaded == Run_load_nparray(created.f, created.report, Flat(MaxN), 1)
    IN  {Missing, SavedFile(created.f, created.report),
         SavedFile(loaded.f, loaded.report)}

\* lines 183-184: h5py.File(filename, 'r+') raises on a missing file before
\* self.f is assigned; the report is replaced by the one in the file
Run_open(g, r, file) ==
    IF ~file.exists THEN Raises(g, r, "IOError")
    ELSE Outcome(file.f, file.report, "")

open(file) ==
    LET out == Run_open(f, report, file)
    IN  /\ f' = out.f
        /\ report' = out.report
        /\ err' = out.err
        /\ call' = [op |-> "open", arg |-> file.exists]
        /\ UNCHANGED <<signal, self_signal, twin>>

\* a close that returns when there is nothing to close
Run_close_quiet(g, r) == Outcome(IF Usable(g) THEN ClosedFile ELSE g, r, "")

\* lines 173-176: the report goes into the file, then the file is closed
Run_close(g, r) ==
    IF ~Usable(g) THEN Raises(g, r, g.raises)
    ELSE Outcome(ClosedFile, r, "")

close ==
    LET out == Run_close(f, report)
    IN  /\ f' = out.f
        /\ report' = out.report
        /\ err' = out.err
        /\ call' = [op |-> "close", arg |-> 0]
        /\ UNCHANGED <<signal, self_signal, twin>>

\* h5py resolves a name with a leading / from the root group of the file
Resolve(name) ==
    IF name = "/workup/x_binarated" THEN "workup/x_binarated" ELSE name

\* lines 205-270: y = self.f[ordinate], x = self.f[y.attrs['abscissa']],
\* y[0], plt.plot(x, y); nothing is stored and nothing is reported
Run_plot(g, r, ordinate) ==
    IF ~Usable(g) THEN Raises(g, r, g.raises)
    ELSE IF ~Contains(g, ordinate) THEN Raises(g, r, "KeyError")
    ELSE IF g[ordinate].abscissa = "" THEN Raises(g, r, "KeyError")
    ELSE IF ~Contains(g, Resolve(g[ordinate].abscissa))
         THEN Raises(g, r, "KeyError")
    ELSE IF Len(g[ordinate].data) = 0 THEN Raises(g, r, "ValueError")
    ELSE IF Len(g[Resolve(g[ordinate].abscissa)].data) # Len(g[ordinate].data)
         THEN Raises(g, r, "ValueError")
    ELSE Outcome(g, r, "")

plot(ordinate) ==
    LET out == Run_plot(f, report, ordinate)
    IN  /\ f' = out.f
        /\ report' = out.report
        /\ err' = out.err
        /\ call' = [op |-> "plot", arg |-> ordinate]
        /\ UNCHANGED <<signal, self_signal, twin>>

Ordinates == {"y", "workup/freq/FT", "workup/time/z"}

NextContainer ==
    \/ \E file \in DiskFiles : open(file)
    \/ close
    \/ \E ordinate \in Ordinates : plot(ordinate)
    \/ load_nparray(Flat(MaxN), 1)
    \/ time_mask_binarate("middle")
    \/ time_window_cyclicize(1)
    \/ fft(0)
    \/ freq_filter_Hilbert_complex
    \/ freq_filter_bp(<<1, MaxBw>>, MaxOrder)
    \/ time_mask_rippleless(1)
    \/ ifft
    \/ fit(1)

SpecContainer == InitContainer /\ [][NextContainer]_vars

\* C24: a Signal created without a filename can do nothing but open: while
\* it has no file, every call of another operation (load_nparray, a stage,
\* plot, close) fails and leaves the report at its single initial entry.
C24_FilelessOnlyOpens ==
    [][ (f = NoFile /\ call'.op # "open")
        => /\ err' # ""
           /\ f' = NoFile
           /\ report' = report
           /\ report' = <<Entry("Container Signal object created", <<>>)>>
      ]_vars

\* close has failed on an object that was never opened
C24_Witness ==
    /\ f = NoFile
    /\ call.op = "close"
    /\ err = "AttributeError"
    /\ Len(report) = 1

(***************************************************************************)
(* Claims about the abscissa named by a dataset.                           *)
(***************************************************************************)
\* the three datasets ifft stores
Analytic == {"workup/time/z", "workup/time/p", "workup/time/a"}

\* the number of samples ifft keeps: those the ripple mask selects if that
\* mask exists, else the whole spectrum
KeptLength(g) ==
    IF Contains(g, "workup/time/mask/rippleless")
    THEN CountNonzero(g["workup/time/mask/rippleless"].data)
    ELSE Len(g["workup/freq/FT"].data)

\* C27: whenever ifft succeeds, z, p and a have one length, the number of
\* true entries of the ripple mask if it exists and the spectrum length
\* otherwise, and the abscissa the three of them name is a dataset of that
\* length.
C27_AnalyticLengths ==
    (call.op = "ifft" /\ err = "") =>
        \A k \in Analytic :
            /\ Contains(f, k)
            /\ Len(f[k].data) = KeptLength(f)
            /\ f[k].abscissa = f["workup/time/z"].abscissa
            /\ Contains(f, Resolve(f[k].abscissa))
            /\ Len(f[Resolve(f[k].abscissa)].data) = KeptLength(f)

\* every abscissa attribute in the file names a dataset of the file
NoDanglingAbscissa(g) ==
    \A k \in DOMAIN g :
        g[k].abscissa # "" => Contains(g, Resolve(g[k].abscissa))

\* C28: through any sequence of successful stage calls the abscissa of
\* every stored dataset names a dataset that exists: a call that succeeds
\* on a file without a dangling abscissa leaves none, ifft after
\* time_mask_binarate without time_window_cyclicize included.
C28_AbscissaExists ==
    [][ (Usable(f) /\ NoDanglingAbscissa(f) /\ err' = "" /\ Usable(f'))
        => NoDanglingAbscissa(f') ]_vars

\* C29: a stage call that raises is atomic: the datasets and the report
\* after the failed call are what they were before it.
C29_FailedCallAtomic ==
    [][ err' # "" => (f' = f /\ report' = report) ]_vars

====
